---- MODULE Spec2Model ----
(***************************************************************************)
(* Model of src/main.rs: the iterative number-theoretic transform over the *)
(* prime field of order MODULUS, its inverse, the alternate forward        *)
(* variant and the convolution pipelines of main().                        *)
(*                                                                         *)
(* The program computes on u64.  TLC's integers are 32 bits wide, so a u64 *)
(* is kept as five limbs of 14 bits, least significant first (the top limb *)
(* holds the remaining 8 bits).  Values the code keeps below MODULUS       *)
(* (twiddle factors, roots, n_inv, residues) are plain integers.           *)
(***************************************************************************)
EXTENDS Integers, Sequences, FiniteSets, TLC

MODULUS == 998244353

PRIMITIVE_ROOT == 3

(***************************************************************************)
(* u64 arithmetic.                                                         *)
(***************************************************************************)
LimbBase == 2^14

TopLimb == 2^8

NumLimbs == 2 + 3

\* An integer 0 <= i < 2^31 as a u64.
U64(i) == <<i % LimbBase, (i \div LimbBase) % LimbBase,
            i \div (LimbBase * LimbBase), 0, 0>>

\* A u64 below MODULUS (so below 2^30) as an integer.
IntOf(x) == x[1] + LimbBase * x[2] + LimbBase * LimbBase * x[3]

\* x < MODULUS, x a u64.
IsReduced(x) ==
    /\ x[4] = 0
    /\ x[5] = 0
    /\ x[3] < 8
    /\ IntOf(x) < MODULUS

\* Carry propagation over column sums: the limbs of sum(cols[k] * LimbBase^(k-1)).
RECURSIVE Carry(_, _)
Carry(cols, c) ==
    IF cols = <<>> THEN <<c>>
    ELSE LET s == Head(cols) + c
         IN  <<s % LimbBase>> \o Carry(Tail(cols), s \div LimbBase)

Limb(x, k) == IF k \in 1..Len(x) THEN x[k] ELSE 0

\* The exact product of two u64, ten limbs.
MulFull(x, y) ==
    Carry([k \in 1..9 |->
              Limb(x, 1) * Limb(y, k) + Limb(x, 2) * Limb(y, k - 1)
            + Limb(x, 3) * Limb(y, k - 2) + Limb(x, 4) * Limb(y, k - 3)
            + Limb(x, 5) * Limb(y, k - 4)], 0)

\* The exact sum of two u64, six limbs.
AddFull(x, y) == Carry([k \in 1..NumLimbs |-> x[k] + y[k]], 0)

\* Does an exact result fit in 64 bits?
Fits(p) == p[5] < TopLimb /\ \A k \in 6..Len(p) : p[k] = 0

\* The low 64 bits of an exact result (wrapping arithmetic).
Wrap(p) == <<p[1], p[2], p[3], p[4], p[5] % TopLimb>>

\* The exact difference x - y of two u64: five limbs and the borrow out of
\* the top (1 when x < y).
RECURSIVE Borrow(_, _, _, _)
Borrow(x, y, k, b) ==
    IF k > NumLimbs THEN <<b>>
    ELSE LET d == x[k] - y[k] - b
         IN  IF d < 0 THEN <<d + LimbBase>> \o Borrow(x, y, k + 1, 1)
                      ELSE <<d>> \o Borrow(x, y, k + 1, 0)

SubFull(x, y) == Borrow(x, y, 1, 0)

\* (r * 2^k) % m for r < m < 2^30.
RECURSIVE Dbl(_, _, _)
Dbl(r, k, m) == IF k = 0 \/ r = 0 THEN r ELSE Dbl((2 * r) % m, k - 1, m)

\* x % m for a u64 x and 0 < m < 2^30, by Horner's rule over the limbs
\* k..NumLimbs of x.
RECURSIVE RemFrom(_, _, _)
RemFrom(x, k, m) ==
    IF k > NumLimbs THEN 0
    ELSE (Dbl(RemFrom(x, k + 1, m), 14, m) + (x[k] % m)) % m

Rem(x, m) == RemFrom(x, 1, m)

\* (x * y) % m on u64 operands x, y < 2^31: the product is below 2^62, so
\* it never overflows.
MulMod(x, y, m) == Rem(Wrap(MulFull(U64(x), U64(y))), m)

(***************************************************************************)
(* power_mod (main.rs 5-16).                                               *)
(***************************************************************************)
\* The loop of lines 8-14 on its state (result, base, exp).
RECURSIVE power_mod_loop(_, _)
power_mod_loop(st, modulus) ==
    IF st.exp > 0
    THEN power_mod_loop(
             [result |-> IF st.exp % 2 = 1
                         THEN MulMod(st.result, st.base, modulus)
                         ELSE st.result,
              exp    |-> st.exp \div 2,
              base   |-> MulMod(st.base, st.base, modulus)], modulus)
    ELSE st.result

power_mod(base, exp, modulus) ==
    power_mod_loop([result |-> 1, base |-> base % modulus, exp |-> exp],
                   modulus)

(***************************************************************************)
(* Buffers.  A buffer is a sequence of u64; the code indexes from 0.  A    *)
(* transform runs on a record st:                                          *)
(*   a   - the buffer;                                                     *)
(*   ok  - FALSE once an index was out of bounds or an assertion failed    *)
(*         (Rust panics there and the call never returns);                 *)
(*   ovf - TRUE once a u64 operation left 64 bits: a build with overflow   *)
(*         checks panics there, a build without them wraps (as a does).    *)
(***************************************************************************)
At(a, i) == a[i + 1]

Put(a, i, v) == [a EXCEPT ![i + 1] = v]

InBounds(a, i) == i < Len(a)

Start(a) == [a |-> a, ok |-> TRUE, ovf |-> FALSE]

\* Bitwise or of two non-negative integers.
RECURSIVE BitOr(_, _)
BitOr(p, q) ==
    IF p = 0 THEN q
    ELSE IF q = 0 THEN p
    ELSE (IF p % 2 = 1 \/ q % 2 = 1 THEN 1 ELSE 0)
         + 2 * BitOr(p \div 2, q \div 2)

\* h of main.rs 30-35 (and 70-75): the number of halvings that take n to 1.
RECURSIVE halvings(_)
halvings(m) == IF m > 1 THEN 1 + halvings(m \div 2) ELSE 0

(***************************************************************************)
(* bit_reverse (main.rs 18-27).                                            *)
(***************************************************************************)
RECURSIVE bit_reverse_loop(_, _, _)
bit_reverse_loop(xx, nn, cnt) ==
    IF cnt = 0 THEN nn
    ELSE bit_reverse_loop(xx \div 2, 2 * nn + (xx % 2), cnt - 1)

bit_reverse(idx_in, log2n) == bit_reverse_loop(idx_in, 0, log2n)

(***************************************************************************)
(* The permutation step (main.rs 36-42, repeated at 76-82).                *)
(***************************************************************************)
\* rev_entry with n where line 38 has n >> 1.
rev_entry_full_n(tab, n, i) ==
    BitOr(At(tab, i \div 2) \div 2, IF i % 2 = 1 THEN n ELSE 0)

\* rev[i] as line 38 computes it from the table filled so far.
rev_entry(tab, n, i) ==
    BitOr(At(tab, i \div 2) \div 2, IF i % 2 = 1 THEN n \div 2 ELSE 0)

\* perm_iter with i != rev[i] where line 39 has i < rev[i].
perm_iter_both_ways(ps, n, i) ==
    LET r  == rev_entry(ps.rev, n, i)
        rv == Put(ps.rev, i, r)
    IN  IF i # r
        THEN IF InBounds(ps.a, i) /\ InBounds(ps.a, r)
             THEN [a   |-> Put(Put(ps.a, i, At(ps.a, r)), r, At(ps.a, i)),
                   rev |-> rv, ok |-> TRUE]
             ELSE [a |-> ps.a, rev |-> rv, ok |-> FALSE]
        ELSE [a |-> ps.a, rev |-> rv, ok |-> TRUE]

\* One iteration of the loop, lines 38-41, on ps = [a, rev, ok].
perm_iter(ps, n, i) ==
    LET r  == rev_entry(ps.rev, n, i)
        rv == Put(ps.rev, i, r)
    IN  IF i < r
        THEN IF InBounds(ps.a, i) /\ InBounds(ps.a, r)
             THEN [a   |-> Put(Put(ps.a, i, At(ps.a, r)), r, At(ps.a, i)),
                   rev |-> rv, ok |-> TRUE]
             ELSE [a |-> ps.a, rev |-> rv, ok |-> FALSE]
        ELSE [a |-> ps.a, rev |-> rv, ok |-> TRUE]

RECURSIVE perm_loop(_, _, _)
perm_loop(ps, n, i) ==
    IF ~ps.ok \/ i >= n THEN ps ELSE perm_loop(perm_iter(ps, n, i), n, i + 1)

\* let mut rev = vec![0; n]; for i in 0..n { ... }
bit_reverse_permutation(a, n) ==
    perm_loop([a |-> a, rev |-> [k \in 1..n |-> 0], ok |-> TRUE], n, 0)

(***************************************************************************)
(* ntt (main.rs 29-58).                                                    *)
(***************************************************************************)
\* Lines 50-53 at lo = k + j and hi = k + j + m.
butterfly(st, lo, hi, w) ==
    IF ~(InBounds(st.a, lo) /\ InBounds(st.a, hi))
    THEN [st EXCEPT !.ok = FALSE]
    ELSE LET u  == At(st.a, lo)
             p  == MulFull(At(st.a, hi), U64(w))
             t  == U64(Rem(Wrap(p), MODULUS))
             s  == AddFull(u, t)
             d  == AddFull(u, U64(MODULUS))
             e  == SubFull(Wrap(d), t)
         IN  [a   |-> Put(Put(st.a, lo, U64(Rem(Wrap(s), MODULUS))),
                          hi, U64(Rem(Wrap(e), MODULUS))),
              ok  |-> TRUE,
              ovf |-> st.ovf \/ ~Fits(p) \/ ~Fits(s) \/ ~Fits(d) \/ ~Fits(e)]

\* for k in (0..n).step_by(mh)
RECURSIVE ntt_k_loop(_, _, _, _, _, _)

\* ntt_k_loop that leaves out a last block shorter than mh.
ntt_k_loop_whole_blocks(st, n, mh, j, k, w) ==
    IF ~st.ok \/ k + mh > n THEN st
    ELSE ntt_k_loop(butterfly(st, k + j, k + j + (mh \div 2), w),
                    n, mh, j, k + mh, w)

ntt_k_loop(st, n, mh, j, k, w) ==
    IF ~st.ok \/ k >= n THEN st
    ELSE ntt_k_loop(butterfly(st, k + j, k + j + (mh \div 2), w),
                    n, mh, j, k + mh, w)

\* for j in 0..m, on js = [st, w]: let mut w = 1 before the loop and
\* w = w * base % MODULUS after each j.
RECURSIVE ntt_j_loop(_, _, _, _, _)

\* ntt_j_loop that never advances w.
ntt_j_loop_stale_w(js, n, mh, base, j) ==
    IF ~js.st.ok \/ j >= mh \div 2 THEN js.st
    ELSE ntt_j_loop([st |-> ntt_k_loop(js.st, n, mh, j, 0, js.w),
                     w  |-> js.w],
                    n, mh, base, j + 1)

ntt_j_loop(js, n, mh, base, j) ==
    IF ~js.st.ok \/ j >= mh \div 2 THEN js.st
    ELSE ntt_j_loop([st |-> ntt_k_loop(js.st, n, mh, j, 0, js.w),
                     w  |-> MulMod(js.w, base, MODULUS)],
                    n, mh, base, j + 1)

\* for i in 1..=h, with mh = 1 << i
RECURSIVE ntt_stages(_, _, _, _, _)
ntt_stages(st, n, h, primitive_root, i) ==
    IF ~st.ok \/ i > h THEN st
    ELSE ntt_stages(
             ntt_j_loop([st |-> st, w |-> 1], n, 2^i,
                        power_mod(primitive_root, (MODULUS - 1) \div (2^i),
                                  MODULUS), 0),
             n, h, primitive_root, i + 1)

ntt(a, n, primitive_root) ==
    LET ps == bit_reverse_permutation(a, n)
    IN  ntt_stages([a |-> ps.a, ok |-> ps.ok, ovf |-> FALSE],
                   n, halvings(n), primitive_root, 1)

(***************************************************************************)
(* intt (main.rs 61-67).                                                   *)
(***************************************************************************)
\* for ai in a.iter_mut() { *ai = (*ai * n_inv) % MODULUS; }
RECURSIVE scale_loop(_, _, _)

\* scale_loop that leaves the buffer as the transform left it.
scale_loop_skipped(st, n_inv, i) == st

scale_loop(st, n_inv, i) ==
    IF i >= Len(st.a) THEN st
    ELSE LET p == MulFull(At(st.a, i), U64(n_inv))
         IN  scale_loop([a   |-> Put(st.a, i, U64(Rem(Wrap(p), MODULUS))),
                         ok  |-> TRUE,
                         ovf |-> st.ovf \/ ~Fits(p)],
                        n_inv, i + 1)

\* intt that hands ntt the root itself, not its inverse.
intt_forward_root(a, n, primitive_root) ==
    LET n_inv == power_mod(n, MODULUS - 2, MODULUS)
        st    == ntt(a, n, primitive_root)
    IN  IF st.ok THEN scale_loop(st, n_inv, 0) ELSE st

intt(a, n, primitive_root) ==
    LET n_inv == power_mod(n, MODULUS - 2, MODULUS)
        st    == ntt(a, n, power_mod(primitive_root, MODULUS - 2, MODULUS))
    IN  IF st.ok THEN scale_loop(st, n_inv, 0) ELSE st

(***************************************************************************)
(* alt_ntt (main.rs 69-115).                                               *)
(***************************************************************************)
is_power_of_two(n) == n > 0 /\ 2^halvings(n) = n

\* Lines 94-98 at s, with partner s + m.
alt_butterfly(st, s, m, w) ==
    IF ~(InBounds(st.a, s) /\ InBounds(st.a, s + m))
    THEN [st EXCEPT !.ok = FALSE]
    ELSE LET u  == At(st.a, s)
             d  == At(st.a, s + m)
             su == AddFull(u, d)
             um == AddFull(u, U64(MODULUS))
             df == SubFull(Wrap(um), d)
             p  == MulFull(U64(w), U64(Rem(Wrap(df), MODULUS)))
         IN  [a   |-> Put(Put(st.a, s, U64(Rem(Wrap(su), MODULUS))),
                          s + m, U64(Rem(Wrap(p), MODULUS))),
              ok  |-> TRUE,
              ovf |-> st.ovf \/ ~Fits(su) \/ ~Fits(um) \/ ~Fits(df)
                             \/ ~Fits(p)]

\* for s in r..r + m, on ss = [st, w]: let mut w = 1 before the loop and
\* w = w * base % MODULUS after each s.
RECURSIVE alt_s_loop(_, _, _, _, _)
alt_s_loop(ss, r, m, base, s) ==
    IF ~ss.st.ok \/ s >= r + m THEN ss.st
    ELSE alt_s_loop([st |-> alt_butterfly(ss.st, s, m, ss.w),
                     w  |-> MulMod(ss.w, base, MODULUS)],
                    r, m, base, s + 1)

\* while r < n { ...; r += 2 * m; }
RECURSIVE alt_r_loop(_, _, _, _, _)
alt_r_loop(st, n, m, base, r) ==
    IF ~st.ok \/ r >= n THEN st
    ELSE alt_r_loop(alt_s_loop([st |-> st, w |-> 1], r, m, base, r),
                    n, m, base, r + 2 * m)

\* while m > 2 { m >>= 1; ...; base = base * base % MODULUS; }
\* on ms = [st, m, base].
RECURSIVE alt_m_loop(_, _)
alt_m_loop(ms, n) ==
    IF ~ms.st.ok \/ ms.m <= 2 THEN ms
    ELSE alt_m_loop([st   |-> alt_r_loop(ms.st, n, ms.m \div 2, ms.base, 0),
                     m    |-> ms.m \div 2,
                     base |-> MulMod(ms.base, ms.base, MODULUS)], n)

\* Lines 108-111 at r: the butterfly of the last stage, without a twiddle.
alt_last_butterfly(st, r) ==
    IF ~(InBounds(st.a, r) /\ InBounds(st.a, r + 1))
    THEN [st EXCEPT !.ok = FALSE]
    ELSE LET u  == At(st.a, r)
             d  == At(st.a, r + 1)
             su == AddFull(u, d)
             um == AddFull(u, U64(MODULUS))
             df == SubFull(Wrap(um), d)
         IN  [a   |-> Put(Put(st.a, r, U64(Rem(Wrap(su), MODULUS))),
                          r + 1, U64(Rem(Wrap(df), MODULUS))),
              ok  |-> TRUE,
              ovf |-> st.ovf \/ ~Fits(su) \/ ~Fits(um) \/ ~Fits(df)]

\* while r < n { ...; r += 2; }
RECURSIVE alt_last_loop(_, _, _)
alt_last_loop(st, n, r) ==
    IF ~st.ok \/ r >= n THEN st
    ELSE alt_last_loop(alt_last_butterfly(st, r), n, r + 2)

alt_ntt(a, n, primitive_root) ==
    LET ps  == bit_reverse_permutation(a, n)
        len == Len(a)
    IN  IF ~ps.ok \/ ~is_power_of_two(len)
        THEN [a |-> ps.a, ok |-> FALSE, ovf |-> FALSE]
        ELSE LET ms == alt_m_loop(
                           [st   |-> Start(ps.a),
                            m    |-> len,
                            base |-> power_mod(primitive_root,
                                               (MODULUS - 1) \div len,
                                               MODULUS)], len)
             IN  IF ms.st.ok /\ ms.m > 1
                 THEN alt_last_loop(ms.st, len, 0)
                 ELSE ms.st

(***************************************************************************)
(* The program state.  main() (main.rs 117-181) is four blocks, each on    *)
(* its own buffers: block 1 (118-128) and block 3 (150-160) transform a    *)
(* buffer forward and back, block 2 (130-148) and block 4 (162-180)        *)
(* multiply two sequences through the transform.  Blocks 3 and 4 are       *)
(* blocks 1 and 2 with alt_ntt as the forward transform, on the same       *)
(* inputs.  The assert_eq! that ends a block is stated as a property of    *)
(* the block's last state.                                                 *)
(***************************************************************************)
VARIABLES
    pc,                 \* the next call of the run
    len,                \* n, the length handed to every call
    og,                 \* the first input as the caller built it
    og1,                \* the second input (blocks 2 and 4)
    coefficients,       \* block 1's buffer
    alt_coefficients,   \* block 3's buffer
    vec0, vec1, res,    \* block 2's buffers
    alt_vec0, alt_vec1, alt_res,    \* block 4's buffers
    panicked,           \* a call panicked: the program has ended
    overflowed,         \* some u64 operation left 64 bits
    rev,                \* the permutation step's table
    pos,                \* the permutation step's loop index i
    swaps,              \* the swaps of the current pass, in order: each the
                        \* set of positions whose content it changed
    pass,               \* which run of the permutation step this is
    pm_args,            \* the arguments of a power_mod call
    pm_result           \* what it returned

callVars  == <<pc, len, og, panicked, overflowed>>
rtVars    == <<coefficients, alt_coefficients>>
convVars  == <<og1, vec0, vec1, res, alt_vec0, alt_vec1, alt_res>>
permVars  == <<rev, pos, swaps, pass>>
powVars   == <<pm_args, pm_result>>
vars      == <<callVars, rtVars, convVars, permVars, powVars>>

(***************************************************************************)
(* Inputs.                                                                 *)
(***************************************************************************)
\* Transform lengths are 2^0 .. 2^MaxLog.
MaxLog == 3

\* The permutation step alone runs on lengths 2^0 .. 2^MaxLogPerm.
MaxLogPerm == 5

\* Lengths that are no power of two run up to MaxBadLen.
MaxBadLen == 9

\* power_mod is called with base <= MaxBase, exp <= MaxExp, modulus <= MaxMod.
MaxBase == 6

MaxExp == 6

MaxMod == 6

\* Field elements the inputs are built from: both ends of [0, MODULUS).
Vals == {0, 1, MODULUS - 1}

Buf(q) == [k \in 1..Len(q) |-> U64(q[k])]

\* q cut or zero-padded to length n.
Resize(q, n) == [k \in 1..n |-> IF k <= Len(q) THEN q[k] ELSE 0]

\* The first half of q (of length n), the rest zero.
LowHalf(q, n) == [k \in 1..n |-> IF 2 * k <= n THEN q[k] ELSE 0]

\* 1, 2, ..., n: the buffer of lines 119 and 151 at length n.
Ramp(n) == [k \in 1..n |-> k]

\* The inputs of lines 132-133 and 164-165 at length n.
Lit0(n) == Resize(<<4, 1, 4, 2, 1, 3, 5, 6>>, n)

Lit1(n) == Resize(<<6, 1, 8, 0, 3, 3, 9, 8>>, n)

\* Sequences over Vals that are constant but for one position.
Sparse(n) ==
    {[k \in 1..n |-> IF k = p THEN v ELSE bg] : bg \in Vals, v \in Vals,
                                                 p \in 1..n}

\* MODULUS - 1, MODULUS - 2, ..., MODULUS - n.
Down(n) == [k \in 1..n |-> MODULUS - k]

\* v at position p, zero elsewhere.
Deltas(n, V) == {[k \in 1..n |-> IF k = p THEN v ELSE 0] : v \in V, p \in 1..n}

\* The value of a variable the run at hand does not use.
Unused == <<>>

NoRT == coefficients = Unused /\ alt_coefficients = Unused

NoConv ==
    /\ og1 = Unused /\ vec0 = Unused /\ vec1 = Unused /\ res = Unused
    /\ alt_vec0 = Unused /\ alt_vec1 = Unused /\ alt_res = Unused

NoPerm == rev = Unused /\ pos = 0 /\ swaps = Unused /\ pass = 0

NoPow == pm_args = Unused /\ pm_result = 0

NoPanic == panicked = FALSE /\ overflowed = FALSE

\* What a call leaves behind: the flags, and where the run goes next.
Return(st, next) ==
    /\ panicked' = ~st.ok
    /\ overflowed' = (overflowed \/ st.ovf)
    /\ pc' = IF st.ok THEN next ELSE "panicked"

(***************************************************************************)
(* Blocks 1 and 3: forward, then inverse.                                  *)
(***************************************************************************)
InitRT ==
    /\ \E k \in 0..MaxLog :
          \E q \in Sparse(2^k) \cup {Ramp(2^k), Down(2^k), Lit0(2^k), Lit1(2^k)} :
          /\ len = 2^k
          /\ og = Buf(q)
          /\ coefficients = Buf(q)
          /\ alt_coefficients = Buf(q)
    /\ pc = "b1_ntt"
    /\ NoConv /\ NoPerm /\ NoPow /\ NoPanic

\* Line 122.
Block1Ntt ==
    /\ pc = "b1_ntt"
    /\ LET st == ntt(coefficients, len, PRIMITIVE_ROOT)
       IN  coefficients' = st.a /\ Return(st, "b1_intt")
    /\ UNCHANGED <<len, og, alt_coefficients, convVars, permVars, powVars>>

\* Line 125.
Block1Intt ==
    /\ pc = "b1_intt"
    /\ LET st == intt(coefficients, len, PRIMITIVE_ROOT)
       IN  coefficients' = st.a /\ Return(st, "b3_alt_ntt")
    /\ UNCHANGED <<len, og, alt_coefficients, convVars, permVars, powVars>>

\* Line 154.
Block3AltNtt ==
    /\ pc = "b3_alt_ntt"
    /\ LET st == alt_ntt(alt_coefficients, len, PRIMITIVE_ROOT)
       IN  alt_coefficients' = st.a /\ Return(st, "b3_intt")
    /\ UNCHANGED <<len, og, coefficients, convVars, permVars, powVars>>

\* Line 157.
Block3Intt ==
    /\ pc = "b3_intt"
    /\ LET st == intt(alt_coefficients, len, PRIMITIVE_ROOT)
       IN  alt_coefficients' = st.a /\ Return(st, "b3_done")
    /\ UNCHANGED <<len, og, coefficients, convVars, permVars, powVars>>

NextRT == Block1Ntt \/ Block1Intt \/ Block3AltNtt \/ Block3Intt

SpecRT == InitRT /\ [][NextRT]_vars

(***************************************************************************)
(* ntt on a length that is no power of two (line 122 with such a buffer).  *)
(***************************************************************************)
InitBadLen ==
    /\ \E n \in 3..MaxBadLen : \E q \in Sparse(n) \cup {Ramp(n)} :
          /\ ~is_power_of_two(n)
          /\ len = n
          /\ og = Buf(q)
          /\ coefficients = Buf(q)
          /\ alt_coefficients = Buf(q)
    /\ pc = "b1_ntt"
    /\ NoConv /\ NoPerm /\ NoPow /\ NoPanic

NextBadLen == Block1Ntt

SpecBadLen == InitBadLen /\ [][NextBadLen]_vars

(***************************************************************************)
(* Blocks 2 and 4: the product of two sequences through the transform.     *)
(***************************************************************************)
FirstInputs(n) ==
    Deltas(n, {MODULUS - 1})
        \cup {Lit0(n), LowHalf(Lit0(n), n), Down(n),
              [k \in 1..n |-> MODULUS - 1]}

SecondInputs(n) ==
    {[k \in 1..n |-> IF k = p THEN MODULUS - 1 ELSE 0] : p \in {1, 2, n} \cap (1..n)}
        \cup {Lit1(n), LowHalf(Lit1(n), n)}

InitConv ==
    /\ \E k \in 0..MaxLog :
          \E q0 \in FirstInputs(2^k) : \E q1 \in SecondInputs(2^k) :
             /\ len = 2^k
             /\ og = Buf(q0) /\ og1 = Buf(q1)
             /\ vec0 = Buf(q0) /\ vec1 = Buf(q1)
             /\ alt_vec0 = Buf(q0) /\ alt_vec1 = Buf(q1)
    /\ res = <<>> /\ alt_res = <<>>
    /\ pc = "b2_ntt0"
    /\ NoRT /\ NoPerm /\ NoPow /\ NoPanic

\* res.push(x * y) for i in 0..n (lines 139-142 and 171-174), on
\* ps = [a, ok, ovf] with a the vector built so far.
RECURSIVE product_loop(_, _, _, _, _)
product_loop(ps, v0, v1, n, i) ==
    IF ~ps.ok \/ i >= n THEN ps
    ELSE IF ~(InBounds(v0, i) /\ InBounds(v1, i))
         THEN [ps EXCEPT !.ok = FALSE]
         ELSE LET p == MulFull(At(v0, i), At(v1, i))
              IN  product_loop([a   |-> Append(ps.a, Wrap(p)),
                                ok  |-> TRUE,
                                ovf |-> ps.ovf \/ ~Fits(p)],
                               v0, v1, n, i + 1)

pointwise_product(v0, v1, n) == product_loop(Start(<<>>), v0, v1, n, 0)

\* Line 136.
Block2Ntt0 ==
    /\ pc = "b2_ntt0"
    /\ LET st == ntt(vec0, len, PRIMITIVE_ROOT)
       IN  vec0' = st.a /\ Return(st, "b2_ntt1")
    /\ UNCHANGED <<len, og, og1, vec1, res, alt_vec0, alt_vec1, alt_res,
                   rtVars, permVars, powVars>>

\* Line 137.
Block2Ntt1 ==
    /\ pc = "b2_ntt1"
    /\ LET st == ntt(vec1, len, PRIMITIVE_ROOT)
       IN  vec1' = st.a /\ Return(st, "b2_product")
    /\ UNCHANGED <<len, og, og1, vec0, res, alt_vec0, alt_vec1, alt_res,
                   rtVars, permVars, powVars>>

\* Lines 139-142.
Block2Product ==
    /\ pc = "b2_product"
    /\ LET st == pointwise_product(vec0, vec1, len)
       IN  res' = st.a /\ Return(st, "b2_intt")
    /\ UNCHANGED <<len, og, og1, vec0, vec1, alt_vec0, alt_vec1, alt_res,
                   rtVars, permVars, powVars>>

\* Line 144.
Block2Intt ==
    /\ pc = "b2_intt"
    /\ LET st == intt(res, len, PRIMITIVE_ROOT)
       IN  res' = st.a /\ Return(st, "b4_ntt0")
    /\ UNCHANGED <<len, og, og1, vec0, vec1, alt_vec0, alt_vec1, alt_res,
                   rtVars, permVars, powVars>>

\* Line 168.
Block4AltNtt0 ==
    /\ pc = "b4_ntt0"
    /\ LET st == alt_ntt(alt_vec0, len, PRIMITIVE_ROOT)
       IN  alt_vec0' = st.a /\ Return(st, "b4_ntt1")
    /\ UNCHANGED <<len, og, og1, vec0, vec1, res, alt_vec1, alt_res,
                   rtVars, permVars, powVars>>

\* Line 169.
Block4AltNtt1 ==
    /\ pc = "b4_ntt1"
    /\ LET st == alt_ntt(alt_vec1, len, PRIMITIVE_ROOT)
       IN  alt_vec1' = st.a /\ Return(st, "b4_product")
    /\ UNCHANGED <<len, og, og1, vec0, vec1, res, alt_vec0, alt_res,
                   rtVars, permVars, powVars>>

\* Lines 171-174.
Block4Product ==
    /\ pc = "b4_product"
    /\ LET st == pointwise_product(alt_vec0, alt_vec1, len)
       IN  alt_res' = st.a /\ Return(st, "b4_intt")
    /\ UNCHANGED <<len, og, og1, vec0, vec1, res, alt_vec0, alt_vec1,
                   rtVars, permVars, powVars>>

\* Line 176.
Block4Intt ==
    /\ pc = "b4_intt"
    /\ LET st == intt(alt_res, len, PRIMITIVE_ROOT)
       IN  alt_res' = st.a /\ Return(st, "b4_done")
    /\ UNCHANGED <<len, og, og1, vec0, vec1, res, alt_vec0, alt_vec1,
                   rtVars, permVars, powVars>>

NextConv ==
    \/ Block2Ntt0 \/ Block2Ntt1 \/ Block2Product \/ Block2Intt
    \/ Block4AltNtt0 \/ Block4AltNtt1 \/ Block4Product \/ Block4Intt

SpecConv == InitConv /\ [][NextConv]_vars

(***************************************************************************)
(* The permutation step, one loop iteration at a time, run twice on the    *)
(* same buffer.  The buffers hold pairwise distinct elements, so a swap    *)
(* shows as the two positions whose content changed.                      *)
(***************************************************************************)
InitPerm ==
    /\ \E k \in 0..MaxLogPerm : \E q \in {Ramp(2^k), Down(2^k)} :
          /\ len = 2^k
          /\ og = Buf(q)
          /\ coefficients = Buf(q)
          /\ rev = [j \in 1..(2^k) |-> 0]
    /\ pos = 0 /\ swaps = <<>> /\ pass = 1
    /\ pc = "perm"
    /\ alt_coefficients = Unused
    /\ NoConv /\ NoPow /\ NoPanic

\* Lines 38-41 (and 78-81) at i = pos.
PermIter ==
    /\ pc = "perm"
    /\ pos < len
    /\ LET ps == perm_iter([a |-> coefficients, rev |-> rev, ok |-> TRUE],
                           len, pos)
       IN  /\ coefficients' = ps.a
           /\ rev' = ps.rev
           /\ swaps' = IF ps.a # coefficients
                       THEN Append(swaps, {j \in 0..(len - 1) :
                                              At(ps.a, j) # At(coefficients, j)})
                       ELSE swaps
           /\ panicked' = ~ps.ok
           /\ pc' = IF ps.ok THEN "perm" ELSE "panicked"
    /\ pos' = pos + 1
    /\ UNCHANGED <<len, og, overflowed, alt_coefficients, pass, convVars,
                   powVars>>

\* The step is entered again on the buffer it left (lines 36-37: a fresh
\* table, i from 0).
PermAgain ==
    /\ pc = "perm"
    /\ pos = len
    /\ pass = 1
    /\ pass' = 2
    /\ rev' = [j \in 1..len |-> 0]
    /\ pos' = 0
    /\ swaps' = <<>>
    /\ UNCHANGED <<callVars, rtVars, convVars, powVars>>

NextPerm == PermIter \/ PermAgain

SpecPerm == InitPerm /\ [][NextPerm]_vars

(***************************************************************************)
(* power_mod called on small arguments.                                    *)
(***************************************************************************)
InitPow ==
    /\ \E b \in 0..MaxBase : \E e \in 0..MaxExp : \E m \in 1..MaxMod :
          pm_args = [base |-> b, exp |-> e, modulus |-> m]
    /\ pm_result = 0
    /\ pc = "call"
    /\ len = 0 /\ og = Unused
    /\ NoRT /\ NoConv /\ NoPerm /\ NoPanic

CallPowerMod ==
    /\ pc = "call"
    /\ pm_result' = power_mod(pm_args.base, pm_args.exp, pm_args.modulus)
    /\ pc' = "returned"
    /\ UNCHANGED <<len, og, panicked, overflowed, pm_args, rtVars, convVars,
                   permVars>>

NextPow == CallPowerMod

SpecPow == InitPow /\ [][NextPow]_vars

(***************************************************************************)
(* Reference definitions for the properties below.                        *)
(***************************************************************************)
Reduced(a) == \A k \in 1..Len(a) : IsReduced(a[k])

Ints(a) == [k \in 1..Len(a) |-> IntOf(a[k])]

\* The sum over i = 0..top of x[i] * y[(k - i) mod n], mod MODULUS, where a
\* term with k - i < 0 counts only when wrap is set.
RECURSIVE SumOfProducts(_, _, _, _, _, _)
SumOfProducts(x, y, n, k, top, wrap) ==
    IF top < 0 THEN 0
    ELSE (SumOfProducts(x, y, n, k, top - 1, wrap)
          + (IF top <= k \/ wrap
             THEN MulMod(At(x, top), At(y, (k - top + n) % n), MODULUS)
             ELSE 0)) % MODULUS

\* The schoolbook product of the polynomials x and y, coefficients 0..n-1.
Schoolbook(x, y, n) ==
    [k \in 1..n |-> SumOfProducts(x, y, n, k - 1, n - 1, FALSE)]

\* The cyclic convolution of x and y, of length n.
Cyclic(x, y, n) ==
    [k \in 1..n |-> SumOfProducts(x, y, n, k - 1, n - 1, TRUE)]

\* The number of coefficients up to the last non-zero one.
Size(x) ==
    LET nz == {k \in 1..Len(x) : x[k] # 0}
    IN  IF nz = {} THEN 0 ELSE CHOOSE k \in nz : \A j \in nz : j <= k

\* The length of the true (linear) convolution of x and y.
TrueLength(x, y) ==
    IF Size(x) = 0 \/ Size(y) = 0 THEN 0 ELSE Size(x) + Size(y) - 1

\* b^e by repeated multiplication, with b^0 = 1.
RECURSIVE Power(_, _)
Power(b, e) == IF e = 0 THEN 1 ELSE b * Power(b, e - 1)

\* The pairs the permutation step has to exchange, as sets of positions.
PairsOf(tab) ==
    {{j, At(tab, j)} : j \in {i \in 0..(Len(tab) - 1) : i # At(tab, i)}}

(***************************************************************************)
(* C1.  Round trip of ntt: for every power-of-two length and every buffer  *)
(* of field elements, ntt and then intt on the buffer complete (no panic,  *)
(* no u64 overflow) and leave every element equal to the original and      *)
(* below MODULUS.                                                          *)
(***************************************************************************)
C1_RoundTrip ==
    /\ ~panicked
    /\ ~overflowed
    /\ pc \in {"b3_alt_ntt", "b3_intt", "b3_done"} =>
          coefficients = og /\ Reduced(coefficients)

C1_Witness ==
    /\ pc = "b3_alt_ntt"
    /\ og = Buf(Ramp(8))
    /\ coefficients = og

(***************************************************************************)
(* C2.  Convolution correctness: when the true convolution of the inputs   *)
(* has length <= n, ntt on both, the pointwise product and intt leave the  *)
(* schoolbook product of the two polynomials, every coefficient below      *)
(* MODULUS, and no u64 operation on the way overflows.                     *)
(***************************************************************************)
C2_Schoolbook ==
    (pc = "b4_ntt0" /\ TrueLength(Ints(og), Ints(og1)) <= len) =>
        /\ ~overflowed
        /\ Reduced(res)
        /\ Ints(res) = Schoolbook(Ints(og), Ints(og1), len)

C2_Witness ==
    /\ pc = "b4_ntt0"
    /\ og = Buf(LowHalf(Lit0(8), 8))
    /\ og1 = Buf(LowHalf(Lit1(8), 8))
    /\ Ints(res) = <<24, 10, 57, 24, 34, 16, 0, 0>>

(***************************************************************************)
(* C3.  Round trip of alt_ntt: alt_ntt and then intt on a buffer leave it  *)
(* equal to the original (the assertion of line 159).                      *)
(***************************************************************************)
C3_AltRoundTrip == pc = "b3_done" => alt_coefficients = og

(***************************************************************************)
(* C4.  The pipeline with alt_ntt as the forward transform leaves the same *)
(* result as the pipeline with ntt, on the same inputs.                    *)
(***************************************************************************)
C4_SameProduct == pc = "b4_done" => alt_res = res

(***************************************************************************)
(* C5.  power_mod(base, exp, modulus) returns base^exp mod modulus, a      *)
(* value in [0, modulus), for every base, exp >= 0 and modulus > 0.        *)
(***************************************************************************)
C5_PowerMod ==
    pc = "returned" =>
        /\ pm_result = Power(pm_args.base, pm_args.exp) % pm_args.modulus
        /\ pm_result \in 0..(pm_args.modulus - 1)

(***************************************************************************)
(* C6.  The permutation step is an involution, and exchanges each pair     *)
(* once: when a pass ends, every pair {i, rev[i]} with i # rev[i] has been *)
(* swapped exactly once, nothing else has been swapped (positions with     *)
(* i = rev[i] are untouched), the buffer holds at i what it held at rev[i] *)
(* before the pass; after the second pass it is the original buffer.       *)
(***************************************************************************)
C6_Involution ==
    (pc = "perm" /\ pos = len) =>
        /\ \A pr \in PairsOf(rev) :
              Cardinality({t \in 1..Len(swaps) : swaps[t] = pr}) = 1
        /\ \A t \in 1..Len(swaps) : swaps[t] \in PairsOf(rev)
        /\ pass = 1 =>
              \A i \in 0..(len - 1) : At(coefficients, i) = At(og, At(rev, i))
        /\ pass = 2 => coefficients = og

C6_Witness ==
    /\ pc = "perm"
    /\ pass = 2
    /\ pos = len
    /\ len = 8
    /\ swaps = <<{1, 4}, {3, 6}>>
    /\ coefficients = og

(***************************************************************************)
(* C7.  As claimed: on a length n >= 3 that is no power of two, ntt on a   *)
(* buffer of n elements runs to completion (no out-of-bounds access, no    *)
(* abort).                                                                 *)
(***************************************************************************)
C7_Completes == pc # "b1_ntt" => ~panicked

(***************************************************************************)
(* C7, amended.  On a length n >= 3 that is no power of two, ntt on a      *)
(* buffer of n elements never returns: a butterfly indexes the buffer at   *)
(* or past n and the call panics.                                          *)
(***************************************************************************)
C7_Panics == pc # "b1_ntt" => panicked /\ pc = "panicked"

C7_Witness ==
    /\ pc = "panicked"
    /\ len = 6
    /\ og = Buf(Ramp(6))
    /\ coefficients # og

(***************************************************************************)
(* C8.  Every element of the pointwise product is below MODULUS when it is *)
(* handed to intt, in both pipelines.                                      *)
(***************************************************************************)
C8_ProductReduced ==
    /\ pc = "b2_intt" => Reduced(res)
    /\ pc = "b4_intt" => Reduced(alt_res)

(***************************************************************************)
(* C9.  The table of the permutation step: every entry filled so far is    *)
(* the reversal of the low h bits of its index, rev[i] = bit_reverse(i, h) *)
(* with n = 2^h, and the full table is a permutation of 0 .. n-1.          *)
(***************************************************************************)
C9_RevTable ==
    pc \in {"perm", "panicked"} =>
        /\ \A i \in 0..(pos - 1) :
              At(rev, i) = bit_reverse(i, halvings(len))
        /\ pos = len => {At(rev, i) : i \in 0..(len - 1)} = 0..(len - 1)

C9_Witness ==
    /\ pc = "perm"
    /\ len = 32
    /\ pos = len
    /\ At(rev, 1) = 16
    /\ At(rev, 6) = 12

(***************************************************************************)
(* C10.  With no bound on the true convolution length the ntt pipeline     *)
(* leaves the cyclic convolution: res[k] is the sum of a[i] * b[j] over    *)
(* (i + j) mod n = k, mod MODULUS, and no u64 operation on the way         *)
(* overflows.                                                              *)
(***************************************************************************)
C10_Cyclic ==
    pc = "b4_ntt0" =>
        /\ ~overflowed
        /\ Reduced(res)
        /\ Ints(res) = Cyclic(Ints(og), Ints(og1), len)

C10_Witness ==
    /\ pc = "b4_ntt0"
    /\ og = Buf(Lit0(8))
    /\ og1 = Buf(Lit1(8))
    /\ TrueLength(Ints(og), Ints(og1)) > len
    /\ Ints(res) = <<123, 120, 106, 92, 139, 144, 140, 124>>

====
